---- MODULE Spec2Model ----
(***************************************************************************)
(* Model of the homework-status polling bot (src/homework.py).             *)
(*                                                                         *)
(* One process, main(), runs the loop of lines 152-169.  Each step of the  *)
(* loop body is one action; pc names the statement about to run.  The two  *)
(* remote parties (the status API and the Telegram channel) are inputs     *)
(* drawn with \E.  The Russian message texts of the source are written in  *)
(* ASCII transliteration, character for character where it matters (the    *)
(* f-string structure, the quoting of KeyError).                           *)
(***************************************************************************)
EXTENDS Integers, Sequences, FiniteSets, TLC

(***************************************************************************)
(* Bounds of the model.                                                    *)
(***************************************************************************)
\* time.time() at startup ranges over THREE_MONTHS .. THREE_MONTHS + MaxClock,
\* and the server's current_date over 0 .. MaxClock
MaxClock == 1

(***************************************************************************)
(* Program constants.                                                      *)
(***************************************************************************)
RETRY_PERIOD == 600
THREE_MONTHS == 131400 * 60
LENGTH == 400
OK == 200
BAD_REQUEST == 400
UNAUTHORIZED == 401

\* HOMEWORK_VERDICTS, a dict from status code to verdict text
HOMEWORK_VERDICTS ==
    [approved  |-> "Rabota proverena: revjueru vsjo ponravilos. Ura!",
     reviewing |-> "Rabota vzjata na proverku revjuerom.",
     rejected  |-> "Rabota proverena: u revjuera est zamechanija."]

TokenNames == {"PRACTICUM_TOKEN", "TELEGRAM_TOKEN", "TELEGRAM_CHAT_ID"}

(***************************************************************************)
(* Values.  A JSON value is tagged with its Python type; the fields of a   *)
(* status record are plain strings.                                        *)
(***************************************************************************)
None == [type |-> "none", val |-> <<>>]
JDict(f) == [type |-> "dict", val |-> f]
JList(s) == [type |-> "list", val |-> s]
JStr(s) == [type |-> "str", val |-> s]
JInt(n) == [type |-> "int", val |-> n]

\* the result of a call: a returned value or a raised exception
Return(v) == [raised |-> FALSE, value |-> v, cls |-> "", msg |-> ""]
Raise(c, m) == [raised |-> TRUE, value |-> None, cls |-> c, msg |-> m]

\* an exception object bound to a name; id is its identity (address)
Exc(c, m, i) == [cls |-> c, msg |-> m, id |-> i]
\* the str '' that new_error starts as, and the unbound name `error`
EmptyStr == Exc("str", "", 0)
Unbound == Exc("unbound", "", 0)

\* str(error): KeyError shows the repr of its argument
Str(e) == IF e.cls = "KeyError" THEN "'" \o e.msg \o "'" ELSE e.msg

\* `except Exception` catches every class but the BaseException-only ones
IsExceptionOnlyProject(c) == c \in {"HTTPException", "YandexAPIRequestError"}
IsException(c) == c # "SystemExit"

(***************************************************************************)
(* Inputs.                                                                 *)
(***************************************************************************)
X10 == "xxxxxxxxxx"
X50 == X10 \o X10 \o X10 \o X10 \o X10
LongName == X50 \o X50 \o X50 \o X50 \o X50 \o X50 \o X50 \o X50
Names == {"hw1", LongName}
StatusCodes == {"approved", "reviewing", "rejected", "archived"}
Dates == 0 .. MaxClock
Clock == THREE_MONTHS .. (THREE_MONTHS + MaxClock)
HttpCodes == {OK, BAD_REQUEST, UNAUTHORIZED, 500}
Texts == {"", "err"}
Transports == {"ConnectionError", "RequestException", "response"}
Shapes == {"not_json", "list", "no_homeworks", "homeworks_str", "empty",
           "first_str", "no_name", "no_status", "record"}
\* the two wordings CPython has for reading an unassigned local
UnboundLocalTexts ==
    {"local variable 'response' referenced before assignment",
     "cannot access local variable 'response' where it is not associated with a value"}

\* one status record
MkRecord(shape, name, st) ==
    CASE shape = "no_name"   -> [status |-> st]
      [] shape = "no_status" -> [homework_name |-> name]
      [] OTHER               -> [homework_name |-> name, status |-> st]

\* the top-level mapping, with or without the server's cursor
MkDict(hw, hasDate, date) ==
    IF hasDate THEN JDict([homeworks |-> hw, current_date |-> JInt(date)])
    ELSE JDict([homeworks |-> hw])

\* the body of a 200 response, as response.json() decodes it
MkPayload(shape, name, st, hasDate, date) ==
    CASE shape = "list"          -> JList(<<>>)
      [] shape = "no_homeworks"  ->
            IF hasDate THEN JDict([current_date |-> JInt(date)])
            ELSE JDict(<<>>)
      [] shape = "homeworks_str" -> MkDict(JStr("hw"), hasDate, date)
      [] shape = "empty"         -> MkDict(JList(<<>>), hasDate, date)
      [] shape = "first_str"     -> MkDict(JList(<<JStr("hw")>>), hasDate, date)
      [] OTHER -> MkDict(JList(<<JDict(MkRecord(shape, name, st))>>), hasDate, date)

\* each input is drawn once: the parameters an input does not use are fixed
Canonical(transport, code, text, shape, name, st, hasDate, date, ultext) ==
    LET hasBody == transport = "response" /\ code = OK
        hasDict == hasBody /\ shape \notin {"not_json", "list"}
        hasRec  == hasBody /\ shape \in {"no_name", "no_status", "record"}
    IN /\ transport # "RequestException"
            => ultext = "local variable 'response' referenced before assignment"
       /\ transport # "response" => code = OK
       /\ (transport # "response" \/ code = OK) => text = ""
       /\ ~hasBody => shape = "record"
       /\ ~hasDict => ~hasDate
       /\ ~hasDate => date = 0
       /\ (~hasRec \/ shape = "no_name") => name = "hw1"
       /\ (~hasRec \/ shape = "no_status") => st = "approved"

\* the values a parameter of an input ranges over, given the parameters
\* before it: one value where the input does not use the parameter
CodesFor(transport) == IF transport = "response" THEN HttpCodes ELSE {OK}
TextsFor(transport, code) ==
    IF transport = "response" /\ code # OK THEN Texts ELSE {""}
ShapesFor(transport, code) ==
    IF transport = "response" /\ code = OK THEN Shapes ELSE {"record"}
NamesFor(shape) == IF shape \in {"no_status", "record"} THEN Names ELSE {"hw1"}
StatusCodesFor(shape) ==
    IF shape \in {"no_name", "record"} THEN StatusCodes ELSE {"approved"}
HasDatesFor(transport, code, shape) ==
    IF transport = "response" /\ code = OK /\ shape \notin {"not_json", "list"}
    THEN BOOLEAN ELSE {FALSE}
DatesFor(hasDate) == IF hasDate THEN Dates ELSE {0}
UnboundLocalTextsFor(transport) ==
    IF transport = "RequestException" THEN UnboundLocalTexts
    ELSE {"local variable 'response' referenced before assignment"}

\* what requests.get does: raise, or give a response object
MkNet(transport, code, text, shape, payload, ultext) ==
    [transport |-> transport, status_code |-> code, text |-> text,
     decodable |-> shape # "not_json", json |-> payload, ultext |-> ultext]

(***************************************************************************)
(* The functions of homework.py.                                           *)
(***************************************************************************)
CodeStr(c) ==
    CASE c = 200 -> "200" [] c = 400 -> "400" [] c = 401 -> "401"
      [] c = 500 -> "500" [] OTHER -> "?"

\* message[:LENGTH - 1]
TruncateOneShort(message) ==
    IF Len(message) > LENGTH - 1 THEN SubSeq(message, 1, LENGTH - 1) ELSE message
\* message[:LENGTH]
Truncate(message) ==
    IF Len(message) > LENGTH THEN SubSeq(message, 1, LENGTH) ELSE message

\* get_api_answer(timestamp), given what the network does
get_api_answer(timestamp, net) ==
    IF net.transport = "ConnectionError"
    THEN Raise("ConnectionError", "neprohodit zapros k Yandex API.")
    ELSE IF net.transport = "RequestException"
    \* the second except clause reads the unassigned local `response`
    THEN Raise("UnboundLocalError", net.ultext)
    ELSE IF net.status_code # OK
    THEN LET detail == "Kod otveta: " \o CodeStr(net.status_code)
                       \o ", soobshhenie ob oshibke: " \o net.text
         IN IF net.status_code # UNAUTHORIZED
            THEN Raise("HTTPException",
                       "oshibka avtorizacii ot Yandex API. " \o detail)
            ELSE IF net.status_code # BAD_REQUEST
            THEN Raise("HTTPException",
                       "oshibka zaprosa k Yandex API. " \o detail)
            ELSE Raise("AttributeError",
                       "'Response' object has no attribute 'RequestException'")
    ELSE IF net.decodable THEN Return(net.json)
    ELSE Raise("JSONDecodeError", "Expecting value: line 1 column 1 (char 0)")

\* check_response without the test of line 102
check_response_no_list_check(response) ==
    IF response.type # "dict"
    THEN Raise("TypeError", "otvet API ne sootvetstvuet dokumentacii (ne slovar)")
    ELSE IF "homeworks" \notin DOMAIN response.val
    THEN Raise("KeyError", "Otsutstvujut neobhodimyj kljuch homeworks")
    ELSE IF response.val.homeworks.type \notin {"list", "str"}
    THEN Raise("TypeError", "otvet API ne sootvetstvuet dokumentacii (ne spisok)")
    ELSE IF Len(response.val.homeworks.val) = 0
    THEN Raise("IndexError", "list index out of range")
    ELSE IF response.val.homeworks.type = "str"
            \/ response.val.homeworks.val[1].type # "dict"
    THEN Raise("TypeError", "otvet API ne sootvetstvuet dokumentacii (ne slovar)")
    ELSE Return(response.val.homeworks.val[1])

\* check_response(response)
check_response(response) ==
    IF response.type # "dict"
    THEN Raise("TypeError", "otvet API ne sootvetstvuet dokumentacii (ne slovar)")
    ELSE IF "homeworks" \notin DOMAIN response.val
    THEN Raise("KeyError", "Otsutstvujut neobhodimyj kljuch homeworks")
    ELSE IF response.val.homeworks.type # "list"
    THEN Raise("TypeError", "otvet API ne sootvetstvuet dokumentacii (ne spisok)")
    \* line 106 indexes the list before anything guards it
    ELSE IF Len(response.val.homeworks.val) = 0
    THEN Raise("IndexError", "list index out of range")
    ELSE IF response.val.homeworks.val[1].type # "dict"
    THEN Raise("TypeError", "otvet API ne sootvetstvuet dokumentacii (ne slovar)")
    ELSE Return(response.val.homeworks.val[1])

\* parse_status without the lookup failure of lines 138-143: an unknown
\* status gets an empty verdict
parse_status_any_status(homework) ==
    IF ~ ({"homework_name", "status"} \subseteq DOMAIN homework)
    THEN Raise("YandexAPIRequestError",
               "otsutstvie ozhidaemyh kljuchej v otvete API")
    ELSE Return("Izmenilsja status proverki raboty \"" \o homework.homework_name
                \o "\". "
                \o (IF homework.status \in DOMAIN HOMEWORK_VERDICTS
                    THEN HOMEWORK_VERDICTS[homework.status] ELSE ""))

\* parse_status(homework), homework a record's mapping
parse_status(homework) ==
    IF ~ ({"homework_name", "status"} \subseteq DOMAIN homework)
    THEN Raise("YandexAPIRequestError",
               "otsutstvie ozhidaemyh kljuchej v otvete API")
    ELSE IF homework.status \notin DOMAIN HOMEWORK_VERDICTS
    THEN Raise("YandexAPIRequestError",
               "neozhidannyj status domashnej raboty, obnaruzhennyj v otvete API")
    ELSE Return("Izmenilsja status proverki raboty \"" \o homework.homework_name
                \o "\". " \o HOMEWORK_VERDICTS[homework.status])

\* check_tokens(), given which environment variables are set
check_tokens(tokens) ==
    IF \E t \in TokenNames : ~tokens[t]
    THEN Raise("SystemExit", "")
    ELSE Return(JStr("True"))

\* one call of send_message: what is handed to bot.send_message and whether
\* Telegram took it
SendAttempt(site, message, delivered) ==
    [site |-> site, message |-> message, text |-> Truncate(message),
     ok |-> delivered]

\* send_message(bot, message) raises this when Telegram fails
DeliveryException == Raise("Exception", "sboj pri otpravke soobshhenija v Telegram")

\* sys.exc_info(): a 3-tuple, whatever is being handled
exc_info(error) == <<error.cls, error.id, "traceback">>
\* bool() of a tuple
Truthy(t) == Len(t) > 0
\* error != new_error: exceptions define no __eq__, so identity decides
NotEqual(a, b) == a.id # b.id

\* the test of line 166 without its first conjunct
ShouldReportNoExcInfo(error, new_error) == NotEqual(error, new_error)
\* the test of line 166
ShouldReport(error, new_error) ==
    ~Truthy(exc_info(error)) /\ NotEqual(error, new_error)

\* the test of line 159, always taken
StatusChangedAlways(status, homework) == TRUE
\* the test of line 159, never taken
StatusChangedNever(status, homework) == FALSE
\* the test of line 159
StatusChanged(status, homework) == status # homework.status

\* lines 160-161 with the assignment moved before the send
StatusBeforeSend(status, homework, delivered) == homework.status
\* the value of status after lines 159-161: line 161 runs only if line 160
\* did not raise
StatusAfterSend(status, homework, delivered) ==
    IF delivered THEN homework.status ELSE status

\* a fresh exception object lives at an address no live object has; the only
\* exception alive across cycles is the one new_error holds
NewId(new_error) == CHOOSE i \in 1..2 : i # new_error.id

(***************************************************************************)
(* State.                                                                  *)
(***************************************************************************)
VARIABLES
    tokens,     \* which of the three environment variables are set
    pc,         \* the statement main() is about to run
    timestamp,  \* the cursor (line 150)
    status,     \* the tracked status (line 151)
    new_error,  \* the last reported error (line 151)
    response,   \* local of main
    homework,   \* local of main
    reply,      \* local of main
    error,      \* the exception being handled
    waited,     \* seconds slept since the last cycle ended
    sent,       \* this cycle's calls of send_message
    queried,    \* this cycle's from_date parameters sent to the API
    log,        \* this cycle's log records
    outcome,    \* "running", or how this cycle ended: "ok" / "failed"
    begin,      \* loop state when this cycle began
    prev,       \* how the previous cycle ended
    net         \* what requests.get did in this cycle

vars == <<tokens, pc, timestamp, status, new_error, response, homework, reply,
          error, waited, sent, queried, log, outcome, begin, prev, net>>

LogRec(level, msg) == [level |-> level, msg |-> msg]
Snapshot(t, s, e) == [timestamp |-> t, status |-> s, new_error |-> e]
NoPrev == [outcome |-> "none", msg |-> "", cls |-> "", nfail |-> 0,
           lastfail |-> "", undelivered |-> ""]
\* before the cycle's requests.get
NoNet == MkNet("none", 0, "", "record", None, "")

\* number of failure summaries handed to the channel in a list of sends
RECURSIVE NFail(_)
NFail(s) ==
    IF Len(s) = 0 THEN 0
    ELSE (IF Head(s).site = "failure" THEN 1 ELSE 0) + NFail(Tail(s))

\* the status whose transition is still undelivered after a cycle with sends
\* s for record hw, old being the one undelivered before: a failed send makes
\* it the record's status, a delivered send of that very status clears it
Undelivered(s, hw, old) ==
    IF \E i \in 1..Len(s) : s[i].site = "transition" /\ ~s[i].ok
    THEN hw.val.status
    ELSE IF \E i \in 1..Len(s) : s[i].site = "transition" /\ s[i].ok
                                  /\ hw.val.status = old
    THEN ""
    ELSE old

Init ==
    /\ tokens \in [TokenNames -> BOOLEAN]
    /\ pc = "check_tokens"
    /\ \E now \in Clock : timestamp = now - THREE_MONTHS
    /\ status = ""
    /\ new_error = EmptyStr
    /\ response = None
    /\ homework = None
    /\ reply = ""
    /\ error = Unbound
    /\ waited = 0
    /\ sent = <<>>
    /\ queried = <<>>
    /\ log = <<>>
    /\ outcome = "running"
    /\ begin = Snapshot(timestamp, "", EmptyStr)
    /\ prev = NoPrev
    /\ net = NoNet

\* where control goes when a statement of the try block raises class c
Catch(c) == IF IsException(c) THEN "except" ELSE "exit"

\* the exit status of the process: sys.exit() with no argument (line 47)
\* ends it with status 0, an exception that leaves main() with status 1;
\* Running while the process lives
Running == 0 - 1
ExitStatus ==
    CASE pc = "exit" /\ error.cls = "SystemExit" /\ error.msg = "" -> 0
      [] pc \in {"exit", "crashed"} -> 1
      [] OTHER -> Running

(***************************************************************************)
(* main(), lines 154-155: the cycle begins.                                *)
(***************************************************************************)
CheckTokens ==
    /\ pc = "check_tokens"
    /\ LET r == check_tokens(tokens) IN
       IF r.raised
       THEN /\ pc' = Catch(r.cls)
            /\ error' = Exc(r.cls, r.msg, NewId(new_error))
            /\ log' = log \o <<LogRec("INFO", "Nachali vyzov funkcij v main"),
                               LogRec("CRITICAL",
                                      "otsutstvie objazatelnyh peremennyh"
                                      \o "okruzhenija vo vremja zapuska bota")>>
       ELSE /\ pc' = "get_api_answer"
            /\ error' = error
            /\ log' = Append(log, LogRec("INFO", "Nachali vyzov funkcij v main"))
    /\ waited' = 0
    /\ UNCHANGED <<tokens, timestamp, status, new_error, response, homework,
                   reply, sent, queried, outcome, begin, prev, net>>

(***************************************************************************)
(* main(), line 156.                                                       *)
(***************************************************************************)
GetApiAnswer ==
    /\ pc = "get_api_answer"
    /\ \E transport \in Transports :
       \E code \in CodesFor(transport), ultext \in UnboundLocalTextsFor(transport) :
       \E text \in TextsFor(transport, code), shape \in ShapesFor(transport, code) :
       \E name \in NamesFor(shape), st \in StatusCodesFor(shape),
          hasDate \in HasDatesFor(transport, code, shape) :
       \E date \in DatesFor(hasDate) :
         /\ Canonical(transport, code, text, shape, name, st, hasDate, date, ultext)
         /\ LET n == MkNet(transport, code, text, shape,
                             MkPayload(shape, name, st, hasDate, date), ultext)
                r == get_api_answer(timestamp, n)
            IN /\ net' = n
               /\ IF r.raised
                  THEN /\ pc' = Catch(r.cls)
                       /\ error' = Exc(r.cls, r.msg, NewId(new_error))
                       /\ response' = response
                  ELSE /\ pc' = "check_response"
                       /\ error' = error
                       /\ response' = r.value
    /\ queried' = Append(queried, timestamp)
    /\ UNCHANGED <<tokens, timestamp, status, new_error, homework, reply,
                   waited, sent, log, outcome, begin, prev>>

(***************************************************************************)
(* main(), line 157.                                                       *)
(***************************************************************************)
CheckResponse ==
    /\ pc = "check_response"
    /\ LET r == check_response(response) IN
       IF r.raised
       THEN /\ pc' = Catch(r.cls)
            /\ error' = Exc(r.cls, r.msg, NewId(new_error))
            /\ homework' = homework
            /\ log' = IF r.cls = "KeyError"
                      THEN Append(log, LogRec("ERROR",
                               "otsutstvie ozhidaemyh kljuchej v otvete API"))
                      ELSE log
       ELSE /\ pc' = "parse_status"
            /\ error' = error
            /\ homework' = r.value
            /\ log' = log
    /\ UNCHANGED <<tokens, timestamp, status, new_error, response, reply,
                   waited, sent, queried, outcome, begin, prev, net>>

(***************************************************************************)
(* main(), line 158.                                                       *)
(***************************************************************************)
ParseStatus ==
    /\ pc = "parse_status"
    /\ LET r == parse_status(homework.val) IN
       IF r.raised
       THEN /\ pc' = Catch(r.cls)
            /\ error' = Exc(r.cls, r.msg, NewId(new_error))
            /\ reply' = reply
       ELSE /\ pc' = "notify"
            /\ error' = error
            /\ reply' = r.value
    /\ UNCHANGED <<tokens, timestamp, status, new_error, response, homework,
                   waited, sent, queried, log, outcome, begin, prev, net>>

(***************************************************************************)
(* main(), lines 159-162: notify of a changed status and track it.         *)
(***************************************************************************)
Notify ==
    /\ pc = "notify"
    /\ IF StatusChanged(status, homework.val)
       THEN \E delivered \in BOOLEAN :
              /\ sent' = Append(sent, SendAttempt("transition", reply, delivered))
              /\ status' = StatusAfterSend(status, homework.val, delivered)
              /\ IF delivered
                 THEN /\ pc' = "sleep"
                      /\ outcome' = "ok"
                      /\ error' = error
                      /\ log' = log \o
                           <<LogRec("DEBUG", "udachnaja otpravka soobshhenija v Telegram"),
                             LogRec("INFO", "Zakonchili vyzov funkcij v main")>>
                 ELSE /\ pc' = Catch(DeliveryException.cls)
                      /\ outcome' = outcome
                      /\ error' = Exc(DeliveryException.cls, DeliveryException.msg,
                                      NewId(new_error))
                      /\ log' = Append(log, LogRec("ERROR", DeliveryException.msg))
       ELSE /\ sent' = sent
            /\ status' = homework.val.status
            /\ pc' = "sleep"
            /\ outcome' = "ok"
            /\ error' = error
            /\ log' = Append(log, LogRec("INFO", "Zakonchili vyzov funkcij v main"))
    /\ UNCHANGED <<tokens, timestamp, new_error, response, homework, reply,
                   waited, queried, begin, prev, net>>

(***************************************************************************)
(* main(), lines 163-168: the cycle-boundary handler.  An exception that   *)
(* send_message raises here is raised inside the handler and leaves main.  *)
(***************************************************************************)
Except ==
    /\ pc = "except"
    /\ LET message == "Sboj v rabote programmy: " \o Str(error) IN
       IF ShouldReport(error, new_error)
       THEN \E delivered \in BOOLEAN :
              /\ sent' = Append(sent, SendAttempt("failure", message, delivered))
              /\ IF delivered
                 THEN /\ new_error' = error
                      /\ pc' = "sleep"
                      /\ outcome' = "failed"
                      /\ log' = log \o
                           <<LogRec("ERROR", message),
                             LogRec("DEBUG", "udachnaja otpravka soobshhenija v Telegram")>>
                 ELSE /\ new_error' = new_error
                      /\ pc' = "crashed"
                      /\ outcome' = "failed"
                      /\ log' = log \o
                           <<LogRec("ERROR", message),
                             LogRec("ERROR", DeliveryException.msg)>>
       ELSE /\ sent' = sent
            /\ new_error' = new_error
            /\ pc' = "sleep"
            /\ outcome' = "failed"
            /\ log' = Append(log, LogRec("ERROR", message))
    /\ UNCHANGED <<tokens, timestamp, status, response, homework, reply, error,
                   waited, queried, begin, prev, net>>

(***************************************************************************)
(* main(), line 169, and the return to the top of the loop.  The locals of *)
(* the finished cycle are dead (each is assigned before it is read), so    *)
(* they are reset; the history of the finished cycle moves to prev.        *)
(***************************************************************************)
Sleep ==
    /\ pc = "sleep"
    /\ pc' = "check_tokens"
    /\ waited' = waited + RETRY_PERIOD
    /\ prev' = [outcome |-> outcome,
                msg |-> IF outcome = "failed" THEN Str(error) ELSE "",
                cls |-> IF outcome = "failed" THEN error.cls ELSE "",
                nfail |-> NFail(sent),
                lastfail |-> IF outcome = "failed" THEN Str(error)
                             ELSE prev.lastfail,
                undelivered |-> Undelivered(sent, homework, prev.undelivered)]
    /\ net' = NoNet
    /\ begin' = Snapshot(timestamp, status, new_error)
    /\ response' = None
    /\ homework' = None
    /\ reply' = ""
    /\ error' = Unbound
    /\ sent' = <<>>
    /\ queried' = <<>>
    /\ log' = <<>>
    /\ outcome' = "running"
    /\ UNCHANGED <<tokens, timestamp, status, new_error>>

Next ==
    \/ CheckTokens
    \/ GetApiAnswer
    \/ CheckResponse
    \/ ParseStatus
    \/ Notify
    \/ Except
    \/ Sleep

Spec == Init /\ [][Next]_vars

\* the step of Notify in which send_message returns
NotifyDelivered ==
    /\ Notify
    /\ Len(sent') = Len(sent) + 1
    /\ sent'[Len(sent')].ok

\* main() moves on to another statement: every action of Next changes pc, and
\* one of them is enabled wherever the process has not ended
Proceeds ==
    /\ pc \notin {"exit", "crashed"}
    /\ pc' \in {"check_tokens", "get_api_answer", "check_response",
                "parse_status", "notify", "except", "sleep", "exit", "crashed"}
    /\ pc' # pc

\* main() keeps running (every call returns), and a transition that is
\* attempted again and again is delivered in the end
LiveSpec == Init /\ [][Next]_vars /\ WF_pc(Proceeds) /\ SF_vars(NotifyDelivered)

(***************************************************************************)
(* What a finished cycle looked at.  response, homework, error and sent    *)
(* keep the values of the current cycle until Sleep starts the next one.   *)
(***************************************************************************)
AllTokens == \A t \in TokenNames : tokens[t]
CycleEnded == pc = "sleep"

\* the answer is a mapping whose 'homeworks' is a list headed by a mapping
ValidAnswer ==
    /\ response.type = "dict"
    /\ "homeworks" \in DOMAIN response.val
    /\ response.val.homeworks.type = "list"
    /\ Len(response.val.homeworks.val) > 0
    /\ response.val.homeworks.val[1].type = "dict"
FirstRecord == response.val.homeworks.val[1].val
KnownRecord ==
    /\ {"homework_name", "status"} \subseteq DOMAIN FirstRecord
    /\ FirstRecord.status \in {"approved", "reviewing", "rejected"}

NotMapping == response.type \notin {"none", "dict"}
MissingField == response.type = "dict" /\ "homeworks" \notin DOMAIN response.val
NotList ==
    /\ response.type = "dict"
    /\ "homeworks" \in DOMAIN response.val
    /\ response.val.homeworks.type # "list"
EmptyList ==
    /\ response.type = "dict"
    /\ "homeworks" \in DOMAIN response.val
    /\ response.val.homeworks.type = "list"
    /\ Len(response.val.homeworks.val) = 0

NoTransitionSent == \A i \in 1..Len(sent) : sent[i].site # "transition"

(***************************************************************************)
(* C1: a cycle whose answer is valid and whose first record has a known    *)
(* status different from the tracked one makes exactly one send, of the    *)
(* text parse_status gives for the record, and if that send is delivered   *)
(* the cycle ends with the tracked status equal to the record's status.    *)
(***************************************************************************)
C1_TransitionNotifiedOnce ==
    (CycleEnded /\ ValidAnswer /\ KnownRecord
        /\ FirstRecord.status # begin.status)
    => /\ Len(sent) = 1
       /\ sent[1].site = "transition"
       /\ sent[1].message = parse_status(FirstRecord).value
       /\ sent[1].ok => (status = FirstRecord.status /\ outcome = "ok")

C1_Witness ==
    /\ CycleEnded /\ ValidAnswer /\ KnownRecord
    /\ begin.status = "reviewing"
    /\ FirstRecord.status = "approved"
    /\ Len(sent) = 1 /\ sent[1].ok
    /\ status = "approved"

(***************************************************************************)
(* C2: while a cycle's validated first record has the tracked status, the  *)
(* cycle has sent nothing.                                                 *)
(***************************************************************************)
C2_SameStatusSendsNothing ==
    (ValidAnswer /\ "status" \in DOMAIN FirstRecord
        /\ FirstRecord.status = begin.status)
    => Len(sent) = 0

C2_Witness ==
    /\ CycleEnded /\ ValidAnswer /\ KnownRecord
    /\ FirstRecord.status = begin.status
    /\ outcome = "ok"

(***************************************************************************)
(* C3: a failed cycle whose failure message differs from the last one      *)
(* reported sends one failure notification and records the failure as the  *)
(* last reported error.                                                    *)
(***************************************************************************)
C3_NewFailureReported ==
    (CycleEnded /\ outcome = "failed" /\ Str(error) # Str(begin.new_error))
    => /\ NFail(sent) = 1
       /\ new_error.id = error.id

(***************************************************************************)
(* C4: two consecutive cycles that fail with the same message send at most *)
(* one failure notification between them.                                  *)
(***************************************************************************)
C4_RepeatedFailureNotifiedAtMostOnce ==
    (pc \in {"sleep", "crashed"} /\ outcome = "failed"
        /\ prev.outcome = "failed" /\ prev.msg = Str(error))
    => prev.nfail + NFail(sent) <= 1

C4_Witness ==
    /\ CycleEnded /\ outcome = "failed"
    /\ prev.outcome = "failed" /\ prev.msg = Str(error)
    /\ error.cls = "ConnectionError"

(***************************************************************************)
(* C5: after a successful cycle the cursor is the server's current_date,   *)
(* or the previous cursor if the answer has none.                          *)
(***************************************************************************)
C5_CursorFollowsServer ==
    (CycleEnded /\ outcome = "ok")
    => timestamp = IF "current_date" \in DOMAIN response.val
                   THEN response.val.current_date.val
                   ELSE begin.timestamp

(***************************************************************************)
(* C6: a cycle that ends in a failure leaves the cursor and the tracked    *)
(* status as they were when the cycle began.                               *)
(***************************************************************************)
C6_FailedCycleKeepsState ==
    (pc \in {"except", "sleep", "crashed"} /\ (pc = "except" \/ outcome = "failed"))
    => /\ timestamp = begin.timestamp
       /\ status = begin.status

C6_Witness ==
    /\ CycleEnded /\ outcome = "failed"
    /\ Len(sent) = 1 /\ ~sent[1].ok
    /\ begin.status = "reviewing"
    /\ FirstRecord.status = "rejected"

(***************************************************************************)
(* C7: with the configuration present the loop never reaches a terminal    *)
(* state; every step of the try block leads to the next step, to the       *)
(* handler or to the sleep, the handler leads to the sleep, the sleep      *)
(* waits RETRY_PERIOD and leads to a new cycle, and a new cycle issues     *)
(* one query.                                                              *)
(***************************************************************************)
C7_LoopNeverTerminates ==
    /\ [](AllTokens => pc \notin {"exit", "crashed"})
    /\ [][AllTokens =>
            /\ pc = "check_tokens" => (pc' = "get_api_answer" /\ queried' = <<>>)
            /\ pc = "get_api_answer" =>
                  (pc' \in {"check_response", "except"} /\ Len(queried') = 1)
            /\ pc = "check_response" => pc' \in {"parse_status", "except"}
            /\ pc = "parse_status" => pc' \in {"notify", "except"}
            /\ pc = "notify" => pc' \in {"sleep", "except"}
            /\ pc = "except" => pc' = "sleep"
            /\ pc = "sleep" => (pc' = "check_tokens" /\ waited' = RETRY_PERIOD)
         ]_vars

C7_Witness ==
    /\ pc = "check_response"
    /\ prev.outcome = "failed"
    /\ prev.cls = "ConnectionError"
    /\ Len(queried) = 1

(***************************************************************************)
(* C8: a delivery failure never reaches the cycle-boundary handler: the    *)
(* cycle in which a send failed is not a failed cycle.                     *)
(***************************************************************************)
C8_DeliveryFailureStaysAtCallSite ==
    (\E i \in 1..Len(sent) : ~sent[i].ok)
    => (pc # "except" /\ outcome # "failed")

(***************************************************************************)
(* C9: an answer that is not a mapping, lacks 'homeworks', or whose        *)
(* 'homeworks' is not a list ends the cycle as the failure check_response  *)
(* raises for that case, with no transition notification and the cursor    *)
(* where it was.                                                           *)
(***************************************************************************)
C9_SchemaFailureKinds ==
    CycleEnded =>
      /\ (NotMapping \/ MissingField \/ NotList) =>
            /\ outcome = "failed"
            /\ NoTransitionSent
            /\ timestamp = begin.timestamp
      /\ NotMapping =>
            /\ error.cls = "TypeError"
            /\ error.msg = "otvet API ne sootvetstvuet dokumentacii (ne slovar)"
      /\ MissingField =>
            /\ error.cls = "KeyError"
            /\ error.msg = "Otsutstvujut neobhodimyj kljuch homeworks"
      /\ NotList =>
            /\ error.cls = "TypeError"
            /\ error.msg = "otvet API ne sootvetstvuet dokumentacii (ne spisok)"

C9_Witness ==
    /\ CycleEnded /\ NotList
    /\ "current_date" \in DOMAIN response.val
    /\ response.val.current_date.val # timestamp

(***************************************************************************)
(* C10: a cycle whose answer has an empty record list sends nothing and    *)
(* leaves the tracked status as it was.                                    *)
(***************************************************************************)
C10_EmptyListSendsNothing ==
    EmptyList => (Len(sent) = 0 /\ status = begin.status)

C10_Witness ==
    /\ CycleEnded /\ EmptyList
    /\ begin.status = "approved"

(***************************************************************************)
(* C11: a cycle whose answer is a mapping with an empty record list is a   *)
(* successful cycle: the cycle-boundary handler is not entered and the     *)
(* cycle does not end as a failed one.                                     *)
(***************************************************************************)
C11_EmptyListIsSuccess ==
    EmptyList => (pc # "except" /\ outcome # "failed")

(***************************************************************************)
(* C12: a first record without 'homework_name' or 'status', or with a      *)
(* status that has no verdict, makes parse_status fail with the failure of *)
(* that case; the cycle fails, sends no transition and leaves the tracked  *)
(* status as it was.                                                       *)
(***************************************************************************)
MissingKeys ==
    ValidAnswer /\ ~({"homework_name", "status"} \subseteq DOMAIN FirstRecord)
UnknownStatus ==
    /\ ValidAnswer
    /\ {"homework_name", "status"} \subseteq DOMAIN FirstRecord
    /\ FirstRecord.status \notin {"approved", "reviewing", "rejected"}

C12_BadRecordFailsCycle ==
    (pc \notin {"check_response", "parse_status"})
    => /\ (MissingKeys \/ UnknownStatus) =>
            /\ pc \in {"except", "sleep"}
            /\ pc = "sleep" => outcome = "failed"
            /\ error.cls = "YandexAPIRequestError"
            /\ NoTransitionSent
            /\ status = begin.status
       /\ MissingKeys =>
            error.msg = "otsutstvie ozhidaemyh kljuchej v otvete API"
       /\ UnknownStatus =>
            error.msg = "neozhidannyj status domashnej raboty, obnaruzhennyj v otvete API"

C12_Witness ==
    /\ CycleEnded /\ UnknownStatus
    /\ FirstRecord.status = "archived"
    /\ begin.status = "reviewing"
    /\ outcome = "failed"

(***************************************************************************)
(* C13: of the responses of the API, a 400 or a 401 fails with the         *)
(* HTTPException that carries the code and the server's text, any other    *)
(* code but 200 fails with a different failure, and a 200 gives the parsed *)
(* payload.                                                                *)
(***************************************************************************)
EndsWith(s, t) ==
    Len(s) >= Len(t) /\ SubSeq(s, Len(s) - Len(t) + 1, Len(s)) = t
Detail ==
    "Kod otveta: " \o CodeStr(net.status_code)
        \o ", soobshhenie ob oshibke: " \o net.text

C13_HttpClassification ==
    net.transport = "response" =>
      /\ net.status_code \in {400, 401} =>
            /\ error.cls = "HTTPException"
            /\ EndsWith(error.msg, Detail)
      /\ net.status_code \notin {200, 400, 401} =>
            /\ error.cls \notin {"unbound", "HTTPException"}
      /\ (net.status_code = 200 /\ net.decodable) =>
            /\ response.type = net.json.type
            /\ response = net.json

(***************************************************************************)
(* C14: a successful cycle clears the last reported error, so a failure    *)
(* whose message was last seen before a successful cycle is reported to    *)
(* the channel again.                                                      *)
(***************************************************************************)
C14_ReportedAgainAfterSuccess ==
    (CycleEnded /\ outcome = "failed"
        /\ prev.outcome = "ok" /\ prev.lastfail = Str(error))
    => NFail(sent) = 1

(***************************************************************************)
(* C15: with a configuration value missing the process ends at startup     *)
(* with a non-zero status, having queried and sent nothing; and a terminal *)
(* state is reached in no other way.                                       *)
(***************************************************************************)
C15_MissingConfigIsFatal ==
    /\ (~AllTokens /\ pc # "check_tokens") =>
          /\ pc = "exit"
          /\ prev.outcome = "none"
          /\ ExitStatus # Running /\ ExitStatus # 0
          /\ queried = <<>> /\ sent = <<>>
    /\ pc \in {"exit", "crashed"} => ~AllTokens

(***************************************************************************)
(* C16: what send_message hands to the channel is the first 400 characters *)
(* of its message: exactly 400 characters of a longer message, and a       *)
(* message of at most 400 characters as it is.                             *)
(***************************************************************************)
C16_TruncatedTo400 ==
    \A i \in 1..Len(sent) :
        /\ Len(sent[i].message) > 400 =>
              /\ Len(sent[i].text) = 400
              /\ sent[i].text = SubSeq(sent[i].message, 1, 400)
        /\ Len(sent[i].message) <= 400 => sent[i].text = sent[i].message

C16_Witness ==
    /\ Len(sent) = 1 /\ sent[1].ok
    /\ Len(sent[1].message) > 400
    /\ Len(sent[1].text) = 400

(***************************************************************************)
(* C17: the tracked status changes value only in a step that delivers a    *)
(* transition notification, and a cycle whose transition notification was  *)
(* not delivered has the tracked status it began with.                     *)
(***************************************************************************)
C17_StatusChangesOnlyOnDelivery ==
    /\ [][status' # status =>
            \E i \in 1..Len(sent') :
                sent'[i].site = "transition" /\ sent'[i].ok]_vars
    /\ []((\E i \in 1..Len(sent) : sent[i].site = "transition" /\ ~sent[i].ok)
            => status = begin.status)

C17_Witness ==
    /\ pc = "except"
    /\ Len(sent) = 1 /\ sent[1].site = "transition" /\ ~sent[1].ok
    /\ begin.status = "approved" /\ status = "approved"
    /\ FirstRecord.status = "reviewing"

(***************************************************************************)
(* C18: a cycle issues at most one API query and makes at most one         *)
(* delivery attempt, and a delivery attempt comes after the query of its   *)
(* own cycle.                                                              *)
(***************************************************************************)
C18_OneQueryOneSendPerCycle ==
    /\ Len(queried) <= 1
    /\ Len(sent) <= 1
    /\ Len(sent) > 0 => Len(queried) = 1

C18_Witness ==
    /\ CycleEnded /\ outcome = "failed"
    /\ Len(queried) = 1 /\ Len(sent) = 1
    /\ prev.outcome = "failed" /\ prev.cls = "HTTPException"

(***************************************************************************)
(* C19: the tracked status is the empty string or one of the status codes  *)
(* that have a verdict.                                                    *)
(***************************************************************************)
C19_TrackedStatusIsKnown ==
    status \in {"", "approved", "reviewing", "rejected"}

C19_Witness ==
    /\ CycleEnded /\ UnknownStatus
    /\ status = "rejected" /\ begin.status = "rejected"

(***************************************************************************)
(* C20: once the delivery of a transition to status S has failed, the next *)
(* cycle whose record is valid and carries S attempts the notification     *)
(* again; and, main() running on and repeated attempts being delivered in  *)
(* the end, if from some cycle on the server always answers with a valid   *)
(* record of status S then from some cycle on no transition to S is left   *)
(* undelivered and S is the tracked status.                                *)
(***************************************************************************)
Reports(S) ==
    /\ pc = "except" => error.cls = "Exception"
    /\ pc \in {"check_response", "parse_status", "notify"} =>
          (ValidAnswer /\ KnownRecord /\ FirstRecord.status = S)

\* the transition to S was attempted and has not been delivered since
Pending(S) ==
    \/ prev.undelivered = S
    \/ /\ \E i \in 1..Len(sent) : sent[i].site = "transition" /\ ~sent[i].ok
       /\ FirstRecord.status = S

C20_UndeliveredIsRetried ==
    /\ []((CycleEnded /\ prev.undelivered # "" /\ ValidAnswer /\ KnownRecord
              /\ FirstRecord.status = prev.undelivered)
          => /\ Len(sent) = 1
             /\ sent[1].site = "transition"
             /\ sent[1].message = parse_status(FirstRecord).value)
    /\ \A S \in {"approved", "reviewing", "rejected"} :
          (AllTokens /\ <>[]Reports(S)) => <>[](status = S /\ ~Pending(S))

C20_Witness ==
    /\ CycleEnded /\ ValidAnswer /\ KnownRecord
    /\ prev.undelivered = "approved"
    /\ prev.outcome = "ok"
    /\ FirstRecord.status = "approved"
    /\ Len(sent) = 1 /\ sent[1].ok
    /\ status = "approved"

====
